---- MODULE Spec2Model ----
(***************************************************************************)
(* Model of add_env_to_project.py: main() prints a banner and two paths,   *)
(* checks whether the .env file exists, and either previews it and prints  *)
(* six manual steps, or prints a "not found" message.  The filesystem is   *)
(* outside the program: another process may create, delete or rewrite the  *)
(* .env file between any two steps of main().                              *)
(*                                                                         *)
(* Text is a sequence of one-character strings; "CR" and "LF" stand for    *)
(* the carriage-return and line-feed characters.  A printed line is a      *)
(* record [text, payload, tail]: the literal part of the (f-)string, the   *)
(* interpolated value, and the literal after it.                           *)
(*                                                                         *)
(* The two emoji of lines 17 and 33 are written "OK" and "X".             *)
(*                                                                         *)
(* Spec     : standard output accepts every write.                         *)
(* SpecIO   : additionally any print may raise (stdout closed or full).    *)
(* LiveSpec : SpecIO with weak fairness on the steps of main(): the        *)
(*            interpreter keeps executing the single thread.               *)
(***************************************************************************)
EXTENDS Integers, Sequences, FiniteSets

VARIABLES pc, out, fs, handle, content, existsResult, raised, exitStatus,
          nExists, nOpen, openMode

vars == <<pc, out, fs, handle, content, existsResult, raised, exitStatus,
          nExists, nOpen, openMode>>

\* ------------------------------------------------------------- bounds
\* file lengths tried: 0..SmallLen and PreviewLen-1 .. PreviewLen+ExtraLen
SmallLen == 1
ExtraLen == 2
NumPatterns == 2

\* ------------------------------------------------- program constants
PreviewLen == 100

project_dir == <<"Users", "WORK2", "Desktop", "Rapid Notes", "Rapid Notes">>

\* os.path.join(p, a, b): append the components
PathJoin(p, a, b) == p \o <<a, b>>

env_file == PathJoin(project_dir, "Rapid Notes", ".env")

Min(a, b) == IF a < b THEN a ELSE b

\* ----------------------------------------------------- file contents
PatChar(p, i) ==
    CASE p = 1 -> IF i <= PreviewLen THEN "A" ELSE "Z"
      [] p = 2 -> IF i % 50 = 49 THEN "CR"
                  ELSE IF i % 50 = 0 THEN "LF"
                  ELSE IF i % 7 = 3 THEN "CR" ELSE "B"
      [] OTHER -> "C"

FileData(n, p) == [i \in 1..n |-> PatChar(p, i)]

Lengths == (0..SmallLen) \cup ((PreviewLen - 1)..(PreviewLen + ExtraLen))

Datas == {FileData(n, p) : n \in Lengths, p \in 1..NumPatterns}

Kinds == {"file", "noperm", "dir"}

Absent == [present |-> FALSE, kind |-> "file", data |-> <<>>]

Entry(k, d) == [present |-> TRUE, kind |-> k, data |-> IF k = "dir" THEN <<>> ELSE d]

FsStates == {Absent} \cup {Entry(k, d) : k \in Kinds, d \in Datas}

Closed == [open |-> FALSE, linked |-> FALSE, data |-> <<>>]

\* ------------------------------------------------- pure functions
\* text-mode read (newline=None) of positions lo..hi of s: "\r\n" and
\* lone "\r" become "\n"; an "LF" right after a "CR" is absorbed into it
RECURSIVE TranslateRange(_, _, _)
TranslateRange(s, lo, hi) ==
    IF lo > hi THEN <<>>
    ELSE IF lo = hi
         THEN IF s[lo] = "LF" /\ lo > 1 /\ s[lo - 1] = "CR" THEN <<>>
              ELSE IF s[lo] = "CR" THEN <<"LF">>
              ELSE <<s[lo]>>
         ELSE LET mid == (lo + hi) \div 2
              IN  TranslateRange(s, lo, mid) \o TranslateRange(s, mid + 1, hi)

Translate(s) == TranslateRange(s, 1, Len(s))

Preview_short(c) == SubSeq(c, 1, Min(PreviewLen - 1, Len(c)))

\* content[:100]
Preview(c) == SubSeq(c, 1, Min(PreviewLen, Len(c)))

Static(t) == [text |-> t, payload |-> <<>>, tail |-> ""]

EmitPcs == {"l11", "l12", "l13", "l17", "l22", "l24", "l25", "l26", "l27",
             "l28", "l29", "l30", "l33", "l34"}

InstructionPcs == {"l24", "l25", "l26", "l27", "l28", "l29", "l30"}

LineOf_leak(p) ==
    CASE p = "l11" -> Static("=== Adding .env file to Xcode project ===")
      [] p = "l12" -> [text |-> "Project directory: ", payload |-> project_dir, tail |-> ""]
      [] p = "l13" -> [text |-> ".env file path: ", payload |-> env_file, tail |-> ""]
      [] p = "l17" -> Static("OK .env file found")
      [] p = "l22" -> [text |-> "Content preview: ", payload |-> Preview(content), tail |-> "..."]
      [] p = "l24" -> Static("\nTo add .env to Xcode project:")
      [] p = "l25" -> Static("1. In Xcode, right-click on 'Rapid Notes' folder")
      [] p = "l26" -> Static("2. Choose 'Add Files to Rapid Notes'")
      [] p = "l27" -> [text |-> "3. Navigate to and select the .env file", payload |-> Preview(content), tail |-> ""]
      [] p = "l28" -> Static("4. Make sure 'Add to target: Rapid Notes' is checked")
      [] p = "l29" -> Static("5. Choose 'Create folder references' (not groups)")
      [] p = "l30" -> Static("6. Click 'Add'")
      [] p = "l33" -> Static("X .env file not found")
      [] p = "l34" -> Static("Please create the .env file first")

\* the argument of the print() call at each line
LineOf(p) ==
    CASE p = "l11" -> Static("=== Adding .env file to Xcode project ===")
      [] p = "l12" -> [text |-> "Project directory: ", payload |-> project_dir, tail |-> ""]
      [] p = "l13" -> [text |-> ".env file path: ", payload |-> env_file, tail |-> ""]
      [] p = "l17" -> Static("OK .env file found")
      [] p = "l22" -> [text |-> "Content preview: ", payload |-> Preview(content), tail |-> "..."]
      [] p = "l24" -> Static("\nTo add .env to Xcode project:")
      [] p = "l25" -> Static("1. In Xcode, right-click on 'Rapid Notes' folder")
      [] p = "l26" -> Static("2. Choose 'Add Files to Rapid Notes'")
      [] p = "l27" -> Static("3. Navigate to and select the .env file")
      [] p = "l28" -> Static("4. Make sure 'Add to target: Rapid Notes' is checked")
      [] p = "l29" -> Static("5. Choose 'Create folder references' (not groups)")
      [] p = "l30" -> Static("6. Click 'Add'")
      [] p = "l33" -> Static("X .env file not found")
      [] p = "l34" -> Static("Please create the .env file first")

NextPc_fallthrough(p) ==
    CASE p = "l11" -> "l12"
      [] p = "l12" -> "l13"
      [] p = "l13" -> "l16"
      [] p = "l17" -> "l20"
      [] p = "l22" -> "l23"
      [] p = "l24" -> "l25"
      [] p = "l25" -> "l26"
      [] p = "l26" -> "l27"
      [] p = "l27" -> "l28"
      [] p = "l28" -> "l29"
      [] p = "l29" -> "l30"
      [] p = "l30" -> "l33"
      [] p = "l33" -> "l34"
      [] p = "l34" -> "l37"

\* the statement that follows each print() in main()
NextPc(p) ==
    CASE p = "l11" -> "l12"
      [] p = "l12" -> "l13"
      [] p = "l13" -> "l16"
      [] p = "l17" -> "l20"
      [] p = "l22" -> "l23"
      [] p = "l24" -> "l25"
      [] p = "l25" -> "l26"
      [] p = "l26" -> "l27"
      [] p = "l27" -> "l28"
      [] p = "l28" -> "l29"
      [] p = "l29" -> "l30"
      [] p = "l30" -> "l37"
      [] p = "l33" -> "l34"
      [] p = "l34" -> "l37"

Branch_always(found) == "l17"

\* if os.path.exists(env_file): ... else: ...
Branch(found) == IF found THEN "l17" ELSE "l33"

\* the exception open(env_file, 'r') raises, "none" when it succeeds
OpenError(f) ==
    IF ~f.present THEN "FileNotFoundError"
    ELSE IF f.kind = "dir" THEN "IsADirectoryError"
    ELSE IF f.kind = "noperm" THEN "PermissionError"
    ELSE "none"

Terminated == pc \in {"done", "error"}

\* ------------------------------------------------------------ initial
Init ==
    /\ pc = "l11"
    /\ out = <<>>
    /\ fs \in FsStates
    /\ handle = Closed
    /\ content = <<>>
    /\ existsResult = "unchecked"
    /\ raised = "none"
    /\ exitStatus = -1
    /\ nExists = 0
    /\ nOpen = 0
    /\ openMode = "none"

\* ------------------------------------------------------ steps of main
\* a print() call whose write to standard output succeeds
Emit ==
    /\ pc \in EmitPcs
    /\ out' = Append(out, LineOf(pc))
    /\ pc' = NextPc(pc)
    /\ UNCHANGED <<fs, handle, content, existsResult, raised, exitStatus,
                   nExists, nOpen, openMode>>

ExistsCheck ==
    /\ pc = "l16"
    /\ existsResult' = IF fs.present THEN "found" ELSE "missing"
    /\ nExists' = nExists + 1
    /\ pc' = Branch(fs.present)
    /\ UNCHANGED <<out, fs, handle, content, raised, exitStatus, nOpen, openMode>>

Open_truncating ==
    /\ pc = "l20"
    /\ OpenError(fs) = "none"
    /\ nOpen' = nOpen + 1
    /\ openMode' = "w"
    /\ fs' = [fs EXCEPT !.data = <<>>]
    /\ handle' = [open |-> TRUE, linked |-> TRUE, data |-> <<>>]
    /\ pc' = "l21"
    /\ UNCHANGED <<out, content, existsResult, raised, exitStatus, nExists>>

Open ==
    /\ pc = "l20"
    /\ OpenError(fs) = "none"
    /\ nOpen' = nOpen + 1
    /\ openMode' = "r"
    /\ handle' = [open |-> TRUE, linked |-> TRUE, data |-> fs.data]
    /\ pc' = "l21"
    /\ UNCHANGED <<out, fs, content, existsResult, raised, exitStatus, nExists>>

OpenFail_caught ==
    /\ pc = "l20"
    /\ OpenError(fs) # "none"
    /\ nOpen' = nOpen + 1
    /\ openMode' = "r"
    /\ raised' = OpenError(fs)
    /\ pc' = "l33"
    /\ UNCHANGED <<out, fs, handle, content, existsResult, exitStatus, nExists>>

\* open() raises; nothing in main() catches it
OpenFail ==
    /\ pc = "l20"
    /\ OpenError(fs) # "none"
    /\ nOpen' = nOpen + 1
    /\ openMode' = "r"
    /\ raised' = OpenError(fs)
    /\ pc' = "error"
    /\ exitStatus' = 1
    /\ UNCHANGED <<out, fs, handle, content, existsResult, nExists>>

Read ==
    /\ pc = "l21"
    /\ content' = Translate(handle.data)
    /\ pc' = "l22"
    /\ UNCHANGED <<out, fs, handle, existsResult, raised, exitStatus,
                   nExists, nOpen, openMode>>

ReadFail_leak ==
    /\ pc = "l21"
    /\ \E e \in {"OSError", "UnicodeDecodeError"} : raised' = e
    /\ pc' = "error"
    /\ exitStatus' = 1
    /\ UNCHANGED <<out, fs, handle, content, existsResult, nExists, nOpen, openMode>>

\* f.read() raises inside the with block: the handle is closed by
\* __exit__ and the exception propagates out of main()
ReadFail ==
    /\ pc = "l21"
    /\ \E e \in {"OSError", "UnicodeDecodeError"} : raised' = e
    /\ handle' = Closed
    /\ pc' = "error"
    /\ exitStatus' = 1
    /\ UNCHANGED <<out, fs, content, existsResult, nExists, nOpen, openMode>>

\* normal exit of the with block
WithExit ==
    /\ pc = "l23"
    /\ handle' = Closed
    /\ pc' = "l24"
    /\ UNCHANGED <<out, fs, content, existsResult, raised, exitStatus,
                   nExists, nOpen, openMode>>

Return_status ==
    /\ pc = "l37"
    /\ pc' = "done"
    /\ exitStatus' = IF existsResult = "found" THEN 0 ELSE 1
    /\ UNCHANGED <<out, fs, handle, content, existsResult, raised,
                   nExists, nOpen, openMode>>

Return_spin ==
    /\ pc = "l37"
    /\ UNCHANGED vars

\* main() returns and the interpreter exits with status 0
Return ==
    /\ pc = "l37"
    /\ pc' = "done"
    /\ exitStatus' = 0
    /\ UNCHANGED <<out, fs, handle, content, existsResult, raised,
                   nExists, nOpen, openMode>>

\* print() raises; inside the with block __exit__ closes the handle first
StdoutError ==
    /\ pc \in EmitPcs
    /\ raised' = "StdoutError"
    /\ handle' = Closed
    /\ pc' = "error"
    /\ exitStatus' = 1
    /\ UNCHANGED <<out, fs, content, existsResult, nExists, nOpen, openMode>>

MainNext ==
    \/ Emit
    \/ ExistsCheck
    \/ Open
    \/ OpenFail
    \/ Read
    \/ ReadFail
    \/ WithExit
    \/ Return

\* ---------------------------------------- other processes on the disk
EnvCreate ==
    /\ ~Terminated
    /\ ~fs.present
    /\ \E k \in Kinds, d \in Datas : fs' = Entry(k, d)
    /\ UNCHANGED <<pc, out, handle, content, existsResult, raised, exitStatus,
                   nExists, nOpen, openMode>>

\* unlink: an open handle keeps the unlinked file readable
EnvDelete ==
    /\ ~Terminated
    /\ fs.present
    /\ fs' = Absent
    /\ handle' = IF handle.open THEN [handle EXCEPT !.linked = FALSE] ELSE handle
    /\ UNCHANGED <<pc, out, content, existsResult, raised, exitStatus,
                   nExists, nOpen, openMode>>

\* in-place rewrite: visible through a handle opened on the same file
EnvWrite ==
    /\ ~Terminated
    /\ fs.present
    /\ fs.kind # "dir"
    /\ \E d \in Datas :
         /\ d # fs.data
         /\ fs' = [fs EXCEPT !.data = d]
         /\ handle' = IF handle.open /\ handle.linked
                      THEN [handle EXCEPT !.data = d] ELSE handle
    /\ UNCHANGED <<pc, out, content, existsResult, raised, exitStatus,
                   nExists, nOpen, openMode>>

EnvNext == EnvCreate \/ EnvDelete \/ EnvWrite

Next == MainNext \/ EnvNext

NextIO == MainNext \/ StdoutError \/ EnvNext

Spec == Init /\ [][Next]_vars

SpecIO == Init /\ [][NextIO]_vars

LiveSpec == Init /\ [][NextIO]_vars /\ WF_vars(MainNext)

TypeOK ==
    /\ pc \in EmitPcs \cup {"l16", "l20", "l21", "l23", "l37", "done", "error"}
    /\ existsResult \in {"unchecked", "found", "missing"}
    /\ exitStatus \in {-1, 0, 1}
    /\ handle.open \in BOOLEAN
    /\ fs.present \in BOOLEAN

\* ------------------------------------------------------- properties
SuccessText == "OK .env file found"
FailureText == "X .env file not found"
PromptText == "Please create the .env file first"
PreviewText == "Content preview: "

InstructionList ==
    << [text |-> "\nTo add .env to Xcode project:", payload |-> <<>>, tail |-> ""],
       [text |-> "1. In Xcode, right-click on 'Rapid Notes' folder", payload |-> <<>>, tail |-> ""],
       [text |-> "2. Choose 'Add Files to Rapid Notes'", payload |-> <<>>, tail |-> ""],
       [text |-> "3. Navigate to and select the .env file", payload |-> <<>>, tail |-> ""],
       [text |-> "4. Make sure 'Add to target: Rapid Notes' is checked", payload |-> <<>>, tail |-> ""],
       [text |-> "5. Choose 'Create folder references' (not groups)", payload |-> <<>>, tail |-> ""],
       [text |-> "6. Click 'Add'", payload |-> <<>>, tail |-> ""] >>

InstructionTexts == {InstructionList[i].text : i \in 1..Len(InstructionList)}

HasText(t) == \E i \in 1..Len(out) : out[i].text = t

OpenReadErrors == {"FileNotFoundError", "IsADirectoryError", "PermissionError",
                   "OSError", "UnicodeDecodeError"}

\* main() is past line 22: the file was opened, read and previewed
Previewed == existsResult = "found" /\ pc \in {"l23", "l37", "done"} \cup InstructionPcs

C2_NotFoundNeverOpens ==
    existsResult = "missing" =>
        /\ nOpen = 0
        /\ openMode = "none"
        /\ ~handle.open
        /\ content = <<>>
        /\ pc \in {"l33", "l34", "l37", "done"}
        /\ (pc \in {"l37", "done"} =>
                /\ Len(out) = 5
                /\ out[4].text = FailureText
                /\ out[5].text = PromptText)

C2_Witness == existsResult = "missing" /\ pc = "done" /\ Len(out) = 5

\* C3 as stated: whenever the .env file turns out to be missing, whether
\* at the existence check or at the open, the run ends normally with the
\* "not found" message.
C3_MissingAlwaysGraceful ==
    (Terminated /\ (existsResult = "missing" \/ raised = "FileNotFoundError")) =>
        /\ pc = "done"
        /\ exitStatus = 0
        /\ HasText(FailureText)

\* C3 (amended): a .env file that is missing when the existence check
\* runs leads to the "not found" message and normal termination, whatever
\* other processes do to the file before or after the check.
C3_MissingAtCheckGraceful ==
    existsResult = "missing" =>
        /\ pc # "error"
        /\ raised = "none"
        /\ (Terminated => pc = "done" /\ exitStatus = 0 /\ HasText(FailureText))

C3_Witness == existsResult = "missing" /\ pc = "done" /\ fs.present

\* C4: when the existence check succeeded and the open or the read then
\* raises, the exception is not caught: the run is error-terminated with
\* a non-zero exit status, and neither the preview nor any instruction
\* line was printed.
C4_OpenReadFailureUncaught ==
    raised \in OpenReadErrors =>
        /\ existsResult = "found"
        /\ pc = "error"
        /\ exitStatus # 0
        /\ exitStatus # -1
        /\ ~HasText(PreviewText)
        /\ \A t \in InstructionTexts : ~HasText(t)

C4_Witness == raised = "FileNotFoundError" /\ pc = "error" /\ existsResult = "found"

\* C5: no file handle is open in any terminal state (normal end, failed
\* read, failed print of the preview), and on the successful path the
\* handle is closed before the first instruction line is printed.
C5_HandleReleased ==
    /\ (Terminated => ~handle.open)
    /\ (pc \in InstructionPcs \cup {"l37"} => ~handle.open)
    /\ (handle.open => pc \in {"l21", "l22", "l23"})

C5_Witness ==
    /\ pc = "error"
    /\ nOpen = 1
    /\ raised \in {"OSError", "UnicodeDecodeError", "StdoutError"}
    /\ Len(out) = 4
    /\ ~handle.open

\* C6: the run ends normally with exit status 0 both when the file was
\* found and read and when it was not found; "not found" shows only in
\* the printed text.
C6_NormalExitBothPaths ==
    /\ (Terminated /\ existsResult = "missing") =>
            (pc = "done" /\ exitStatus = 0 /\ HasText(FailureText))
    /\ (Terminated /\ existsResult = "found" /\ HasText(PreviewText)) =>
            (pc = "done" /\ exitStatus = 0 /\ ~HasText(FailureText))
    /\ (pc = "done" => exitStatus = 0)

C6_Witness ==
    /\ pc = "done"
    /\ exitStatus = 0
    /\ existsResult = "missing"
    /\ ~fs.present
    /\ HasText(FailureText)

\* C7: on every successful run the lines printed after the preview line
\* are the same fixed list (header and steps 1 to 6, in order), whatever
\* the file content was.
C7_InstructionsStatic ==
    (existsResult = "found" /\ pc \in {"l37", "done"}) =>
        /\ Len(out) = 5 + Len(InstructionList)
        /\ SubSeq(out, 6, Len(out)) = InstructionList

C7_Witness ==
    /\ pc = "done"
    /\ existsResult = "found"
    /\ content # <<>>
    /\ Len(out) = 12

\* C8: every run of main() eventually reaches a terminal state, normal
\* or error.
C8_Terminates == <>Terminated

C8_Witness == Terminated /\ nExists = 1 /\ exitStatus \in {0, 1}

C9_Counts ==
    /\ nExists <= 1
    /\ nOpen <= 1
    /\ (nOpen = 1 => existsResult = "found" /\ openMode = "r")
    /\ (nOpen = 0 => openMode = "none")
    /\ (Terminated => nExists = 1)

\* C9: a run makes exactly one existence check and at most one open, in
\* read mode and only after the check returned true, and no step of
\* main() changes the filesystem.
C9_ReadOnlyAccess == [](C9_Counts) /\ [][MainNext => fs' = fs]_vars

C9_Witness == pc = "done" /\ nOpen = 1 /\ nExists = 1 /\ fs.present /\ fs.data # <<>>

\* C10: the banner and the two paths are printed before the existence
\* check; then exactly one of the two markers is printed, never both; an
\* instruction line is printed only after the success marker and the
\* preview line.
C10_OrderAndExclusivity ==
    /\ nExists > 0 =>
            /\ Len(out) >= 3
            /\ out[1].text = "=== Adding .env file to Xcode project ==="
            /\ out[2].text = "Project directory: " /\ out[2].payload = project_dir
            /\ out[3].text = ".env file path: " /\ out[3].payload = env_file
    /\ nExists = 0 => Len(out) <= 3 /\ ~HasText(SuccessText) /\ ~HasText(FailureText)
    /\ ~(HasText(SuccessText) /\ HasText(FailureText))
    /\ Len(out) >= 4 => out[4].text \in {SuccessText, FailureText}
    /\ Terminated => (HasText(SuccessText) \/ HasText(FailureText))
    /\ \A i \in 1..Len(out) :
            out[i].text \in InstructionTexts =>
                \E j, k \in 1..Len(out) :
                    /\ j < k /\ k < i
                    /\ out[j].text = SuccessText
                    /\ out[k].text = PreviewText

C10_Witness == pc = "done" /\ Len(out) = 12 /\ HasText(SuccessText)
====
